---- MODULE Spec2Model ----
\* Model of sanksons/gowraps.  Package concurrency: Parallelize and
\* ParallelizeThrottled (src/unnamed/part_000), one caller goroutine plus one
\* goroutine ("unit") per launched task.  Package mysqldb: the transaction
\* methods of MySqlConnection (src/mysqldb/wrapper.go).  Packages regexp and
\* convert: AlphaNumericOnly (src/regexp/regex.go) and ToString
\* (src/convert/convert.go).
EXTENDS Integers, Sequences, FiniteSets, TLC

\* ---------------------------------------------------------------- bounds
MaxN == 3        \* longest batch
MaxF == 3        \* largest throttle factor
MaxNeg == 1      \* most negative throttle factor is -MaxNeg
MaxCallN == 2    \* longest batch where a caller makes call after call
MaxTimedN == 3   \* longest batch of tasks with durations
MaxD == 2        \* longest duration of a task, in logical time units
MaxTx == 3       \* most transactions a connection begins
MaxLen == 3      \* longest text handed to AlphaNumericOnly
MaxAbs == 12     \* largest magnitude of an int handed to ToString

\* ---------------------------------------------------------------- values
\* An interface{} value is a (dynamic type, value) pair.
Nil == [type |-> "nil", v |-> 0]   \* the zero value: the absent marker
IntVal(n) == [type |-> "int", v |-> n]
Str == [type |-> "string", v |-> 0]

\* What a task does when invoked: return a value, return nil, panic, or
\* never return.
Kinds == {"ret", "nil", "panic", "hang"}

VARIABLES
  functions,   \* the batch: functions[t] is the behaviour of task t
  entry,       \* the exported function the caller invoked
  factor,      \* the throttle factor argument
  pc,          \* position of the calling goroutine
  max,         \* len(functions)
  resultSet,   \* the result collector
  wg,          \* counter of the current sync.WaitGroup
  k,           \* range index of Parallelize's loop
  i,           \* first index of the current wave
  completed,   \* tasks completed in earlier waves
  toProcess,   \* size of the current wave
  current,     \* next index to launch in the current wave
  units,       \* the goroutines launched, in launch order
  wave,        \* history: number of wave iterations finished
  calls,       \* history: calls[t] = number of invocations of task t
  writers,     \* history: writers[s] = units that assigned slot s, in order
  held,        \* the sequence an earlier call returned, as its caller sees it
  dur,         \* dur[t] = logical time task t occupies
  now,         \* the logical clock
  tx,          \* MySqlConnection.tx: 0 is nil, else the sql.Tx begun
  txs,         \* txs[x] = state at the database of the x-th transaction begun
  last,        \* the last method called on the connection and its outcome
  input,       \* argument of the pure function under test
  output       \* its result

vars == <<functions, entry, factor, pc, max, resultSet, wg, k, i, completed,
          toProcess, current, units, wave, calls, writers, held, dur, now,
          tx, txs, last, input, output>>

\* the state of one call of Parallelize / ParallelizeThrottled
execVars == <<functions, entry, factor, pc, max, resultSet, wg, k, i,
              completed, toProcess, current, units, wave, calls, writers>>

timeVars == <<dur, now>>

dbVars == <<tx, txs, last>>

pureVars == <<input, output>>

\* what no step of a call touches
otherVars == <<dur, now, tx, txs, last, input, output>>

callerVars == <<max, resultSet, k, i, completed, toProcess, current, wave>>

\* ------------------------------------------------------- pure operators
Len0(s) == Cardinality(DOMAIN s)

\* sum/add of the tests: task t is built from the pair data[t] = {t+10, t+20}
add(a, b) == a + b

\* the value task t hands back when it returns
Call(t) == IF functions[t] = "nil" THEN Nil ELSE IntVal(add(t + 10, t + 20))

\* (variant: make([]interface{}, 0, n), length 0 and capacity n)
makeCapOnly(n) == [s \in {} |-> Nil]

\* make([]interface{}, n): n slots, each the zero value
make(n) == [s \in 0..(n - 1) |-> Nil]

\* (variant: only a negative factor delegates)
DelegatesNegative == factor < 0

\* the test  factor <= 0  that hands the batch to Parallelize
Delegates == factor <= 0

\* (variant: the loop test is i <= max)
LoopTestInclusive == i <= max

\* the wave loop's test  i < max
LoopTest == i < max

\* (variant: the loop's post statement is i++)
NextIOne == i + 1

\* (variant: every remaining task goes into the wave)
ToProcessAll == max - completed

\* the wave size chosen at the top of each wave iteration
ToProcess == IF max - completed >= factor THEN factor ELSE max - completed

\* the loop increment  i = i + factor
NextI == i + factor

\* (variant: Wait does not block)
WaitNoBlock == TRUE

\* wg.Wait() returns once the counter is zero
WaitReturns == wg = 0

\* (variant: the slot index is one too high)
GoArgsOffByOne(x) == [f |-> x, offset |-> x + 1]

\* (variant: the slot index is the position inside the wave)
GoArgsWaveLocal(x) == [f |-> x, offset |-> x - i]

\* arguments bound to a new goroutine: go func(f, offset){...}(functions[x], x)
GoArgs(x) == [f |-> x, offset |-> x]

\* (variant: wg.Done() is the last statement of the body, not deferred)
DoneNotDeferred == FALSE

\* defer wg.Done() is registered first, so it runs on every exit of the unit
DoneIsDeferred == TRUE

\* (variant: the two defer statements are written in the other order, so
\* wg.Done() runs before the closure with recover())
DoneRunsFirst == {"stored", "panicking"}

\* Deferred calls run last-in first-out: wg.Done(), deferred first, runs
\* after the closure with recover(), that is once the unit is past it.
DoneRunsAt == {"guarded", "escaped"}

\* (variant: the deferred closure only prints)
RecoverNotCalled == FALSE

\* the deferred closure calls recover(), which stops a panic of the task
RecoverCalled == TRUE

\* (variant: the closure prints whether or not a panic was recovered)
PrintsAlways(panicking) == TRUE

\* the test  r != nil  on recover()'s result: a diagnostic is printed exactly
\* when the unit is panicking (go 1.24: panic(nil) is recovered as a non-nil
\* *runtime.PanicNilError)
PrintsDiagnostic(panicking) == panicking

\* (variant: the handler records the recovered value in the unit's slot)
HandlerStoresPanic(u) ==
  IF units[u].offset \in DOMAIN resultSet
    THEN [resultSet EXCEPT ![units[u].offset] = Str]
    ELSE resultSet

\* the collector after the recover branch of unit u: the branch only prints
HandlerCollector(u) == resultSet

\* (variant: the collector is one package-level buffer, which every call
\* clears and fills again)
HeldShared(rs) ==
  [c \in DOMAIN held |->
     [s \in DOMAIN held[c] |-> IF s \in DOMAIN rs THEN rs[s] ELSE held[c][s]]]

\* An earlier call's sequence after this call's collector became rs: make
\* hands every call a backing array of its own, so nothing of it changes.
HeldAfter(rs) == held

\* a unit that has just been launched
NewUnit(x) == [pc |-> "ready", f |-> GoArgs(x).f, offset |-> GoArgs(x).offset,
               val |-> Nil, diags |-> 0, dones |-> 0, wave |-> wave,
               left |-> 0]

\* (variant: the function is called without the go keyword, so a unit is
\* begun only when every earlier one has run to its end)
LaunchAfterExit(x) ==
  /\ \A u \in DOMAIN units : units[u].pc = "exited"
  /\ units' = [u \in 0..Len0(units) |->
                 IF u < Len0(units) THEN units[u] ELSE NewUnit(x)]

\* the go statement: a new goroutine is appended to the ones launched
Launch(x) == units' = [u \in 0..Len0(units) |->
                         IF u < Len0(units) THEN units[u] ELSE NewUnit(x)]

\* ----------------------------------------------------------------- Init
\* the caller is about to execute the first statement of the function
ExecStart ==
  /\ pc = IF entry = "Parallelize" THEN "L19" ELSE "L60"
  /\ max = 0
  /\ resultSet = make(0)
  /\ wg = 0
  /\ k = 0
  /\ i = 0
  /\ completed = 0
  /\ toProcess = 0
  /\ current = 0
  /\ units = make(0)
  /\ wave = 0
  /\ calls = [t \in DOMAIN functions |-> 0]
  /\ writers = [s \in DOMAIN functions |-> <<>>]

\* no call of either function is made
ExecIdle ==
  /\ functions = make(0)
  /\ entry = "Parallelize"
  /\ factor = 0
  /\ ExecStart
  /\ held = <<>>

\* tasks take no time
Untimed ==
  /\ dur = [t \in DOMAIN functions |-> 0]
  /\ now = 0

\* GetConnection: connection := &MySqlConnection{db: this.db}
GetConnection ==
  /\ tx = 0
  /\ txs = <<>>
  /\ last = [op |-> "GetConnection", err |-> FALSE, was |-> FALSE,
             on |-> "none", prev |-> "none", prevErr |-> FALSE]

\* no result yet
NoOutput == [done |-> FALSE, s |-> <<>>, err |-> FALSE]

\* no pure function is under test
PureIdle ==
  /\ input = [fn |-> "none"]
  /\ output = NoOutput

Init ==
  /\ \E n \in 0..MaxN : functions \in [0..(n - 1) -> Kinds]
  /\ entry \in {"Parallelize", "ParallelizeThrottled"}
  /\ factor \in IF entry = "Parallelize" THEN {0} ELSE (0 - MaxNeg)..MaxF
  /\ held = <<>>
  /\ Untimed
  /\ GetConnection
  /\ PureIdle
  /\ ExecStart

\* ---------------------------------------------------- caller: Parallelize
\* max := len(functions); resultSet := make([]interface{}, max)
P_Alloc ==
  /\ pc = "L19"
  /\ max' = Len0(functions)
  /\ resultSet' = make(Len0(functions))
  /\ pc' = "L23"
  /\ UNCHANGED <<functions, entry, factor, wg, k, i, completed, toProcess,
                 current, units, wave, calls, writers>>
  /\ held' = HeldAfter(resultSet')
  /\ UNCHANGED otherVars

\* wg := sync.WaitGroup{}; wg.Add(max)
P_Add ==
  /\ pc = "L23"
  /\ wg' = max
  /\ k' = 0
  /\ pc' = "L24"
  /\ UNCHANGED <<functions, entry, factor, max, resultSet, i, completed,
                 toProcess, current, units, wave, calls, writers>>
  /\ UNCHANGED held
  /\ UNCHANGED otherVars

\* for k, f := range functions { go func(f, offset){...}(f, k) }
P_Spawn ==
  /\ pc = "L24"
  /\ k < Len0(functions)
  /\ Launch(k)
  /\ k' = k + 1
  /\ UNCHANGED <<functions, entry, factor, pc, max, resultSet, wg, i,
                 completed, toProcess, current, wave, calls, writers>>
  /\ UNCHANGED held
  /\ UNCHANGED otherVars

P_LoopExit ==
  /\ pc = "L24"
  /\ k >= Len0(functions)
  /\ pc' = "L39"
  /\ UNCHANGED <<functions, entry, factor, max, resultSet, wg, k, i,
                 completed, toProcess, current, units, wave, calls,
                 writers>>
  /\ UNCHANGED held
  /\ UNCHANGED otherVars

\* wg.Wait()
P_Wait ==
  /\ pc = "L39"
  /\ WaitReturns
  /\ pc' = "L40"
  /\ UNCHANGED <<functions, entry, factor, max, resultSet, wg, k, i,
                 completed, toProcess, current, units, wave, calls,
                 writers>>
  /\ UNCHANGED held
  /\ UNCHANGED otherVars

\* return resultSet: the caller now holds the collector itself (a slice
\* shares its backing array)
P_Return ==
  /\ pc = "L40"
  /\ pc' = "done"
  /\ UNCHANGED <<functions, entry, factor, max, resultSet, wg, k, i,
                 completed, toProcess, current, units, wave, calls, writers>>
  /\ UNCHANGED held
  /\ UNCHANGED otherVars

\* ------------------------------------------- caller: ParallelizeThrottled
\* if factor <= 0 { return Parallelize(functions) }
T_Delegate ==
  /\ pc = "L60"
  /\ Delegates
  /\ pc' = "L19"
  /\ UNCHANGED <<functions, entry, factor, max, resultSet, wg, k, i,
                 completed, toProcess, current, units, wave, calls,
                 writers>>
  /\ UNCHANGED held
  /\ UNCHANGED otherVars

\* max := len(functions); resultSet := make(...); var completed int; i := 0
T_Alloc ==
  /\ pc = "L60"
  /\ ~Delegates
  /\ max' = Len0(functions)
  /\ resultSet' = make(Len0(functions))
  /\ completed' = 0
  /\ i' = 0
  /\ pc' = "L68"
  /\ UNCHANGED <<functions, entry, factor, wg, k, toProcess, current, units,
                 wave, calls, writers>>
  /\ held' = HeldAfter(resultSet')
  /\ UNCHANGED otherVars

\* loop test  i < max  holds: choose the wave size
T_WaveSize ==
  /\ pc = "L68"
  /\ LoopTest
  /\ toProcess' = ToProcess
  /\ pc' = "L75"
  /\ UNCHANGED <<functions, entry, factor, max, resultSet, wg, k, i,
                 completed, current, units, wave, calls, writers>>
  /\ UNCHANGED held
  /\ UNCHANGED otherVars

\* loop test  i < max  fails
T_LoopExit ==
  /\ pc = "L68"
  /\ ~LoopTest
  /\ pc' = "L97"
  /\ UNCHANGED <<functions, entry, factor, max, resultSet, wg, k, i,
                 completed, toProcess, current, units, wave, calls,
                 writers>>
  /\ UNCHANGED held
  /\ UNCHANGED otherVars

\* wg := sync.WaitGroup{}; wg.Add(toProcess); current := i
\* (Add with a negative delta that drives the counter below zero panics)
T_Add ==
  /\ pc = "L75"
  /\ IF toProcess < 0
       THEN pc' = "crashed" /\ UNCHANGED <<wg, current>>
       ELSE wg' = toProcess /\ current' = i /\ pc' = "L79"
  /\ UNCHANGED <<functions, entry, factor, max, resultSet, k, i, completed,
                 toProcess, units, wave, calls, writers>>
  /\ UNCHANGED held
  /\ UNCHANGED otherVars

\* for current < i+toProcess { go func(f, offset){...}(functions[current], current); current++ }
\* (functions[current] out of range is a run-time panic of the caller)
T_Spawn ==
  /\ pc = "L79"
  /\ current < i + toProcess
  /\ IF current \in DOMAIN functions
       THEN Launch(current) /\ current' = current + 1 /\ pc' = pc
       ELSE pc' = "crashed" /\ UNCHANGED <<units, current>>
  /\ UNCHANGED <<functions, entry, factor, max, resultSet, wg, k, i,
                 completed, toProcess, wave, calls, writers>>
  /\ UNCHANGED held
  /\ UNCHANGED otherVars

T_SpawnExit ==
  /\ pc = "L79"
  /\ ~(current < i + toProcess)
  /\ pc' = "L94"
  /\ UNCHANGED <<functions, entry, factor, max, resultSet, wg, k, i,
                 completed, toProcess, current, units, wave, calls,
                 writers>>
  /\ UNCHANGED held
  /\ UNCHANGED otherVars

\* wg.Wait()
T_Wait ==
  /\ pc = "L94"
  /\ WaitReturns
  /\ pc' = "L95"
  /\ UNCHANGED <<functions, entry, factor, max, resultSet, wg, k, i,
                 completed, toProcess, current, units, wave, calls,
                 writers>>
  /\ UNCHANGED held
  /\ UNCHANGED otherVars

\* completed = completed + toProcess; then the loop's post statement
T_NextWave ==
  /\ pc = "L95"
  /\ completed' = completed + toProcess
  /\ i' = NextI
  /\ wave' = wave + 1
  /\ pc' = "L68"
  /\ UNCHANGED <<functions, entry, factor, max, resultSet, wg, k, toProcess,
                 current, units, calls, writers>>
  /\ UNCHANGED held
  /\ UNCHANGED otherVars

\* return resultSet (again the collector itself)
T_Return ==
  /\ pc = "L97"
  /\ pc' = "done"
  /\ UNCHANGED <<functions, entry, factor, max, resultSet, wg, k, i,
                 completed, toProcess, current, units, wave, calls, writers>>
  /\ UNCHANGED held
  /\ UNCHANGED otherVars

\* ------------------------------------------------------ the guarded unit
SetUnit(u, r) == units' = [units EXCEPT ![u] = r]

\* the goroutine is scheduled and invokes f()
UnitStart(u) ==
  /\ pc # "crashed"
  /\ units[u].pc = "ready"
  /\ SetUnit(u, [units[u] EXCEPT !.pc = "running",
                                  !.left = dur[units[u].f]])
  /\ calls' = [calls EXCEPT ![units[u].f] = @ + 1]
  /\ UNCHANGED <<functions, entry, factor, pc, wg, writers>>
  /\ UNCHANGED callerVars
  /\ UNCHANGED held
  /\ UNCHANGED otherVars

\* f() returns its value
TaskReturn(u) ==
  /\ pc # "crashed"
  /\ units[u].pc = "running"
  /\ units[u].left = 0
  /\ functions[units[u].f] \in {"ret", "nil"}
  /\ SetUnit(u, [units[u] EXCEPT !.pc = "returned", !.val = Call(units[u].f)])
  /\ UNCHANGED <<functions, entry, factor, pc, wg, calls, writers>>
  /\ UNCHANGED callerVars
  /\ UNCHANGED held
  /\ UNCHANGED otherVars

\* f() panics
TaskPanic(u) ==
  /\ pc # "crashed"
  /\ units[u].pc = "running"
  /\ units[u].left = 0
  /\ functions[units[u].f] = "panic"
  /\ SetUnit(u, [units[u] EXCEPT !.pc = "panicking"])
  /\ UNCHANGED <<functions, entry, factor, pc, wg, calls, writers>>
  /\ UNCHANGED callerVars
  /\ UNCHANGED held
  /\ UNCHANGED otherVars

\* resultSet[offset] = <value of f()>   (an index out of range panics)
Store(u) ==
  /\ pc # "crashed"
  /\ units[u].pc = "returned"
  /\ IF units[u].offset \in DOMAIN resultSet
       THEN /\ resultSet' = [resultSet EXCEPT ![units[u].offset] = units[u].val]
            /\ writers' = [writers EXCEPT ![units[u].offset] = Append(@, u)]
            /\ SetUnit(u, [units[u] EXCEPT !.pc = "stored"])
       ELSE /\ SetUnit(u, [units[u] EXCEPT !.pc = "panicking"])
            /\ UNCHANGED <<resultSet, writers>>
  /\ UNCHANGED <<functions, entry, factor, pc, wg, calls>>
  /\ UNCHANGED <<max, k, i, completed, toProcess, current, wave>>
  /\ held' = HeldAfter(resultSet')
  /\ UNCHANGED otherVars

\* the deferred closure: if r := recover(); r != nil { fmt.Println(...) x3 }
\* Without the recover() the panic leaves the goroutine and ends the process.
\* With wg.Done() deferred the unit goes on to signal; otherwise a recovered
\* panic ends the goroutine with the rest of its body skipped.
Guard(u) ==
  /\ pc # "crashed"
  /\ units[u].pc \in {"stored", "panicking"}
  /\ IF units[u].pc = "panicking"
       THEN IF RecoverCalled
              THEN /\ SetUnit(u, [units[u] EXCEPT
                                   !.pc = IF DoneIsDeferred THEN "guarded"
                                                            ELSE "exited",
                                   !.diags = IF PrintsDiagnostic(TRUE)
                                              THEN @ + 1 ELSE @])
                   /\ resultSet' = HandlerCollector(u)
              ELSE /\ SetUnit(u, [units[u] EXCEPT !.pc = "escaped"])
                   /\ resultSet' = resultSet
       ELSE /\ SetUnit(u, [units[u] EXCEPT
                            !.pc = "guarded",
                            !.diags = IF PrintsDiagnostic(FALSE)
                                        THEN @ + 1 ELSE @])
            /\ resultSet' = resultSet
  /\ UNCHANGED <<functions, entry, factor, pc, wg, calls, writers>>
  /\ UNCHANGED <<max, k, i, completed, toProcess, current, wave>>
  /\ UNCHANGED held
  /\ UNCHANGED otherVars

\* wg.Done(); a counter driven below zero panics, and so does a panic that
\* was not recovered: either ends the process
Done(u) ==
  /\ pc # "crashed"
  /\ units[u].pc \in DoneRunsAt
  /\ IF wg <= 0
       THEN /\ pc' = "crashed"
            /\ SetUnit(u, [units[u] EXCEPT !.pc = "exited"])
            /\ wg' = wg
       ELSE /\ wg' = wg - 1
            /\ SetUnit(u, [units[u] EXCEPT !.pc = "exited", !.dones = @ + 1])
            /\ pc' = IF units[u].pc = "escaped" THEN "crashed" ELSE pc
  /\ UNCHANGED <<functions, entry, factor, calls, writers>>
  /\ UNCHANGED callerVars
  /\ UNCHANGED held
  /\ UNCHANGED otherVars

Next ==
  \/ P_Alloc \/ P_Add \/ P_Spawn \/ P_LoopExit \/ P_Wait \/ P_Return
  \/ T_Delegate \/ T_Alloc \/ T_WaveSize \/ T_LoopExit \/ T_Add \/ T_Spawn
  \/ T_SpawnExit \/ T_Wait \/ T_NextWave \/ T_Return
  \/ \E u \in DOMAIN units : UnitStart(u)
  \/ \E u \in DOMAIN units : TaskReturn(u)
  \/ \E u \in DOMAIN units : TaskPanic(u)
  \/ \E u \in DOMAIN units : Store(u)
  \/ \E u \in DOMAIN units : Guard(u)
  \/ \E u \in DOMAIN units : Done(u)

Spec == Init /\ [][Next]_vars

\* Batches for the fair specification.  A task that returns nil takes the
\* same steps as one that returns a value, so the batches are drawn from the
\* three kinds that differ in control flow: return, panic, hang.
FairInit == Init /\ \A t \in DOMAIN functions : functions[t] # "nil"

\* The Go scheduler never leaves every runnable goroutine idle: while the
\* caller or some unit has a step, a step is taken.  (Weaker than the
\* per-goroutine fairness the runtime gives.)  A task that hangs has no step.
FairSpec == FairInit /\ [][Next]_vars /\ WF_vars(Next)

\* ------------------------------------------------------------ vocabulary
N == Len0(functions)

\* the sequence the caller receives
Result == resultSet

Returned == pc = "done"

\* the unbounded runner executes the batch (called directly or by delegation)
Unbounded == entry = "Parallelize" \/ factor <= 0

\* the wave loop executes the batch
Throttled == entry = "ParallelizeThrottled" /\ factor > 0

Panics(t) == functions[t] = "panic"

\* task of unit u has started and has neither returned nor panicked
InProgress(u) == units[u].pc = "running"

\* unit u has been launched and has not signalled the barrier
Live(u) == units[u].pc # "exited"

\* unit u still has its slot assignment ahead of it
WritePending(u) == units[u].pc \in {"ready", "running", "returned"}

NoHang == \A t \in DOMAIN functions : functions[t] # "hang"

\* ------------------------------------------------------------------ C1
\* C1: when Parallelize returns, result[t] is the value returned by task t
\* for every task t that does not panic, in every interleaving.
C1_OrderPreserved ==
  (Unbounded /\ Returned) =>
     \A t \in DOMAIN functions :
        ~Panics(t) => (t \in DOMAIN Result /\ Result[t] = Call(t))

C1_Witness ==
  /\ entry = "Parallelize" /\ Returned /\ N >= 3
  /\ \A t \in DOMAIN functions : functions[t] = "ret" /\ Result[t] = IntVal(30 + 2 * t)

\* ------------------------------------------------------------------ C2
\* C2: with F > 0 the unit running task g assigns slot g (its global index),
\* so on return result[g] is the value of task g for every non-panicking g.
C2_GlobalIndex ==
  Throttled =>
     /\ \A s \in DOMAIN writers :
           \A n \in 1..Len(writers[s]) : units[writers[s][n]].f = s
     /\ Returned =>
           \A g \in DOMAIN functions :
              ~Panics(g) => (g \in DOMAIN Result /\ Result[g] = Call(g))

C2_Witness ==
  /\ Throttled /\ Returned /\ factor < N
  /\ \E g \in DOMAIN functions :
        /\ g >= factor /\ functions[g] = "ret"
        /\ writers[g] = <<g>> /\ units[g].wave >= 1
        /\ Result[g] = IntVal(30 + 2 * g)

\* ------------------------------------------------------------------ C3
\* C3: if task t panics then result[t] is nil and every other slot j whose
\* task does not panic holds the value of task j (both executors).
C3_PanicIsolation ==
  Returned =>
     \A t \in DOMAIN functions :
        Panics(t) =>
           /\ t \in DOMAIN Result /\ Result[t] = Nil
           /\ \A j \in DOMAIN functions \ {t} :
                 ~Panics(j) => (j \in DOMAIN Result /\ Result[j] = Call(j))

C3_Witness ==
  /\ Returned /\ N >= 3
  /\ \E t \in DOMAIN functions :
        /\ Panics(t) /\ Result[t] = Nil /\ units[t].diags = 1
        /\ \A j \in DOMAIN functions \ {t} :
              functions[j] = "ret" /\ Result[j] = IntVal(30 + 2 * j)

\* ------------------------------------------------------------------ C4
\* C4: with F > 0, at most F tasks are started and unfinished at any time
\* (indeed at most F units are alive at any time).
C4_ThrottleBound ==
  Throttled =>
     /\ Cardinality({u \in DOMAIN units : InProgress(u)}) <= factor
     /\ Cardinality({u \in DOMAIN units : Live(u)}) <= factor

C4_Witness ==
  /\ Throttled /\ factor >= 2 /\ factor < N
  /\ Cardinality({u \in DOMAIN units : InProgress(u)}) = factor

\* ------------------------------------------------------------------ C5
\* C5: with F > 0, a unit of a later wave exists only when every unit of
\* every earlier wave has signalled the barrier; units of two different waves
\* are never in progress together.
C5_WaveSequencing ==
  Throttled =>
     \A u, v \in DOMAIN units :
        units[u].wave < units[v].wave =>
           /\ units[u].pc = "exited" /\ units[u].dones = 1
           /\ ~(InProgress(u) /\ InProgress(v))

C5_Witness ==
  /\ Throttled
  /\ \E u, v \in DOMAIN units :
        /\ units[u].wave < units[v].wave
        /\ units[u].pc = "exited"
        /\ InProgress(v)

\* ------------------------------------------------------------------ C6
\* C6: Parallelize returns only after all N units have signalled: at the
\* return every task has been invoked and has returned or panicked, and no
\* unit is still running.
C6_Barrier ==
  (Unbounded /\ pc \in {"L40", "done"}) =>
     /\ Len0(units) = N
     /\ \A u \in DOMAIN units : units[u].pc = "exited" /\ units[u].dones = 1
     /\ \A t \in DOMAIN functions : calls[t] >= 1

C6_Witness ==
  /\ Unbounded /\ pc = "L40" /\ N >= 2
  /\ \A u \in DOMAIN units : units[u].pc = "exited"
  /\ \E t \in DOMAIN functions : Panics(t)
  /\ \E t \in DOMAIN functions : ~Panics(t)

\* ------------------------------------------------------------------ C7
\* C7: under fair scheduling, a batch none of whose tasks hangs is
\* eventually returned to the caller, by either executor and for any F.
C7_Liveness == NoHang ~> Returned

C7_Witness ==
  /\ Returned /\ NoHang /\ Throttled /\ wave >= 2
  /\ \E t \in DOMAIN functions : Panics(t)

\* ------------------------------------------------------------------ C8
\* C8: a panic never leaves its unit (the process is never brought down),
\* every unit signals the barrier at most once and exactly once by the time
\* it exits, and a call that has returned has had one signal from each task.
C8_PanicContained ==
  /\ pc # "crashed"
  /\ \A u \in DOMAIN units :
        /\ units[u].pc # "escaped"
        /\ units[u].dones <= 1
        /\ units[u].pc = "exited" => units[u].dones = 1
  /\ Returned =>
        /\ Len0(units) = N
        /\ \A u \in DOMAIN units : units[u].dones = 1

C8_Witness ==
  /\ Returned /\ N >= 2
  /\ \A t \in DOMAIN functions : Panics(t)
  /\ \A u \in DOMAIN units : units[u].dones = 1 /\ units[u].diags = 1

\* ------------------------------------------------------------------ C9
\* C9: the returned sequence has exactly N slots, indexed 0..N-1, for every
\* N, every F and every mix of panicking tasks.
C9_ResultLength ==
  Returned => (DOMAIN Result = 0..(N - 1) /\ Len0(Result) = N)

C9_Witness ==
  /\ Returned /\ Throttled /\ N >= 3 /\ Len0(Result) = N
  /\ \E t \in DOMAIN functions : Panics(t)

\* ----------------------------------------------------------------- C10
\* C10: a slot is assigned at most once and only by the unit launched for
\* that index; no two units have the same slot; and once the caller holds
\* the collector no unit has an assignment ahead of it.
C10_DisjointWrites ==
  /\ \A s \in DOMAIN writers :
        /\ Len(writers[s]) <= 1
        /\ \A n \in 1..Len(writers[s]) :
              units[writers[s][n]].f = s /\ writers[s][n] = s
  /\ \A u, v \in DOMAIN units :
        (u # v) => units[u].offset # units[v].offset
  /\ pc \in {"L40", "L97", "done"} =>
        \A u \in DOMAIN units : ~WritePending(u)

C10_Witness ==
  /\ N >= 2
  /\ \E u, v \in DOMAIN units :
        /\ u # v
        /\ units[u].pc = "returned" /\ units[v].pc = "returned"
        /\ writers[units[u].offset] = <<>>

\* ----------------------------------------------------------------- C11
\* C11 as stated: in every batch run each of the N slots is assigned exactly
\* once, by the unit of that index.
C11_EverySlotWritten ==
  Returned => \A s \in DOMAIN functions : writers[s] = <<s>>

\* C11 amended: in every batch run the slot of each task that returns is
\* assigned exactly once, by the unit of that index, and the slot of a task
\* that panics is never assigned (it keeps the absent marker).
C11_SlotWrittenIffReturns ==
  /\ \A s \in DOMAIN functions :
        /\ Len(writers[s]) <= 1
        /\ Panics(s) => writers[s] = <<>>
  /\ Returned =>
        \A s \in DOMAIN functions :
           /\ ~Panics(s) => (writers[s] = <<s>> /\ units[s].f = s)
           /\ Panics(s) => (writers[s] = <<>> /\ Result[s] = Nil)

C11_Witness ==
  /\ Returned /\ N >= 2
  /\ \E s \in DOMAIN functions : Panics(s) /\ writers[s] = <<>>
  /\ \E s \in DOMAIN functions : functions[s] = "nil" /\ writers[s] = <<s>>

\* --------------------------------------------------- reference outcome
\* The sequence determined by the batch alone: the value of each task that
\* returns, the absent marker for each task that panics.
Outcome == [t \in DOMAIN functions |-> IF Panics(t) THEN Nil ELSE Call(t)]

\* Parallelize, called directly, returns Outcome
ParallelizeReturnsOutcome ==
  (entry = "Parallelize" /\ Returned) => Result = Outcome

\* ----------------------------------------------------------------- C12
\* C12: for F <= 0 ParallelizeThrottled hands the untouched batch to
\* Parallelize (the state at Parallelize's first statement is Parallelize's
\* own initial state), never enters the wave loop, launches all N units
\* ahead of the one barrier, and returns the sequence Parallelize returns.
C12_Delegation ==
  /\ ParallelizeReturnsOutcome
  /\ (entry = "ParallelizeThrottled" /\ factor <= 0) =>
        /\ pc \in {"L60", "L19", "L23", "L24", "L39", "L40", "done"}
        /\ wave = 0 /\ i = 0 /\ completed = 0 /\ toProcess = 0 /\ current = 0
        /\ pc = "L19" =>
              /\ max = 0 /\ resultSet = make(0) /\ wg = 0 /\ k = 0
              /\ units = make(0)
              /\ \A t \in DOMAIN functions : calls[t] = 0 /\ writers[t] = <<>>
        /\ pc \in {"L39", "L40", "done"} => Len0(units) = N
        /\ pc \in {"L24", "L39", "L40", "done"} =>
              wg = N - Cardinality({u \in DOMAIN units : units[u].dones = 1})
        /\ Returned => Result = Outcome

C12_Witness ==
  /\ entry = "ParallelizeThrottled" /\ factor < 0 /\ Returned /\ N >= 2
  /\ Result = Outcome
  /\ \E t \in DOMAIN functions : Panics(t)
  /\ \E t \in DOMAIN functions : functions[t] = "ret"

\* ----------------------------------------------------------------- C13
\* C13 as stated: for every F >= N ParallelizeThrottled runs exactly one
\* wave holding all N tasks and returns the sequence Parallelize returns.
C13_OneWaveAlways ==
  /\ ParallelizeReturnsOutcome
  /\ (entry = "ParallelizeThrottled" /\ factor >= N /\ Returned) =>
        /\ wave = 1
        /\ Len0(units) = N
        /\ \A u \in DOMAIN units : units[u].wave = 0
        /\ Result = Outcome

\* C13 amended: for every F >= N with N >= 1 ParallelizeThrottled runs
\* exactly one wave holding all N tasks; for the empty batch it runs no wave;
\* in both cases it returns the sequence Parallelize returns.
C13_OneWaveNonEmpty ==
  /\ ParallelizeReturnsOutcome
  /\ (entry = "ParallelizeThrottled" /\ factor >= N) =>
        /\ N >= 1 =>
              /\ wave <= 1
              /\ \A u \in DOMAIN units : units[u].wave = 0
              /\ Returned => (wave = 1 /\ Len0(units) = N)
        /\ N = 0 => (wave = 0 /\ units = make(0))
        /\ Returned => Result = Outcome

C13_Witness ==
  /\ entry = "ParallelizeThrottled" /\ factor > N /\ N >= 2 /\ Returned
  /\ wave = 1 /\ Len0(units) = N /\ Result = Outcome

\* ----------------------------------------------------------------- C14
\* C14: for 0 < F < N ParallelizeThrottled returns the sequence Parallelize
\* returns for the same batch, panicking tasks included.
C14_ThrottledSameOutput ==
  /\ ParallelizeReturnsOutcome
  /\ (Throttled /\ factor < N /\ Returned) => Result = Outcome

C14_Witness ==
  /\ Throttled /\ factor < N /\ Returned /\ wave >= 2
  /\ Result = Outcome
  /\ \E t \in DOMAIN functions : Panics(t) /\ t >= factor
  /\ \E t \in DOMAIN functions : functions[t] = "ret" /\ t >= factor

\* ----------------------------------------------------------------- C15
Min(a, b) == IF a <= b THEN a ELSE b

\* ceil(n / f) for f > 0
CeilDiv(n, f) == (n + f - 1) \div f

\* the index range [lo, hi) of wave w
WaveLo(w) == w * factor
WaveHi(w) == Min((w + 1) * factor, N)

\* C15: for F > 0 exactly ceil(N/F) waves run; wave w launches exactly the
\* contiguous indices [w*F, min((w+1)*F, N)), F of them except possibly in
\* the last wave (N mod F, or F when F divides N); each index is launched
\* once, in one wave.
C15_WavePartition ==
  Throttled =>
     /\ wave <= CeilDiv(N, factor)
     /\ \A u \in DOMAIN units :
           /\ units[u].f = u
           /\ WaveLo(units[u].wave) <= units[u].f
           /\ units[u].f < WaveHi(units[u].wave)
     /\ pc \in {"L75", "L79", "L94", "L95"} =>
           /\ wave < CeilDiv(N, factor)
           /\ i = WaveLo(wave)
           /\ toProcess = WaveHi(wave) - WaveLo(wave)
           /\ toProcess = IF wave < CeilDiv(N, factor) - 1 THEN factor
                          ELSE IF N % factor = 0 THEN factor
                          ELSE N % factor
     /\ pc \in {"L94", "L95"} => Len0(units) = WaveHi(wave)
     /\ pc \in {"L97", "done"} =>
           (wave = CeilDiv(N, factor) /\ Len0(units) = N)

C15_Witness ==
  /\ Throttled /\ Returned /\ factor >= 2 /\ N % factor # 0 /\ N > factor
  /\ wave = CeilDiv(N, factor)
  /\ \E u \in DOMAIN units : units[u].wave = wave - 1 /\ units[u].f = N - 1

\* ----------------------------------------------------------------- C16
\* the units launched for task t
UnitsOf(t) == {u \in DOMAIN units : units[u].f = t}

\* C16: in one call no task is invoked twice and no two units are launched
\* for one task; once the last barrier is passed every task has been invoked
\* exactly once by exactly one unit, whatever the other tasks did.
C16_ExactlyOnce ==
  \A t \in DOMAIN functions :
     /\ calls[t] <= 1
     /\ Cardinality(UnitsOf(t)) <= 1
     /\ pc \in {"L40", "L97", "done"} =>
           (calls[t] = 1 /\ Cardinality(UnitsOf(t)) = 1)

C16_Witness ==
  /\ Throttled /\ factor >= 2 /\ factor < N /\ Returned
  /\ \A t \in DOMAIN functions : calls[t] = 1
  /\ \E t \in DOMAIN functions : Panics(t) /\ t < factor
  /\ \E t \in DOMAIN functions : ~Panics(t) /\ t >= factor

\* ----------------------------------------------------------------- C17
\* C17: for an empty batch, whatever the entry point and F, no unit is
\* launched, no wave iteration is entered, the barrier counter is never
\* raised (so Wait cannot block), and the sequence returned is empty.
C17_EmptyBatch ==
  N = 0 =>
     /\ units = make(0)
     /\ wave = 0
     /\ pc \notin {"L75", "L79", "L94", "L95", "crashed"}
     /\ wg = 0
     /\ resultSet = make(0)
     /\ Returned => Len0(Result) = 0

C17_Witness ==
  /\ N = 0 /\ Throttled /\ Returned /\ Len0(Result) = 0 /\ Len0(units) = 0

\* ----------------------------------------------------------------- C18
\* C18: a unit prints at most one diagnostic, prints one only for a task
\* that panicked, and has printed it once its recover closure has run; when
\* the call has returned there is exactly one diagnostic per panicking task
\* and none for any other task.
C18_DiagnosticPerPanic ==
  /\ \A u \in DOMAIN units :
        /\ units[u].diags <= 1
        /\ units[u].diags = 1 => Panics(units[u].f)
        /\ (Panics(units[u].f) /\ units[u].pc \in {"guarded", "exited"}) =>
              units[u].diags = 1
  /\ Returned =>
        \A t \in DOMAIN functions :
           /\ Cardinality(UnitsOf(t)) = 1
           /\ \A u \in UnitsOf(t) :
                 units[u].diags = IF Panics(t) THEN 1 ELSE 0

C18_Witness ==
  /\ Returned /\ N >= 3
  /\ \E t \in DOMAIN functions : Panics(t) /\ units[t].diags = 1
  /\ \E t \in DOMAIN functions : functions[t] = "ret" /\ units[t].diags = 0
  /\ \E t \in DOMAIN functions : functions[t] = "nil" /\ units[t].diags = 0

\* ----------------------------------------------------------------- C19
\* every task has run, and every task that returns has its value in its slot
AllTasksServed ==
  \A t \in DOMAIN functions :
     /\ calls[t] = 1
     /\ ~Panics(t) => (writers[t] = <<t>> /\ Result[t] = Call(t))

\* C19: with F > 0, a batch in which some task panics (and none hangs) still
\* runs every wave: the call returns after ceil(N/F) waves with every task
\* executed and the slot of every returning task filled.
C19_BatchContinues ==
  (Throttled /\ NoHang /\ \E t \in DOMAIN functions : Panics(t))
     ~> (Throttled /\ Returned /\ wave = CeilDiv(N, factor)
           /\ AllTasksServed)

C19_Witness ==
  /\ Throttled /\ Returned /\ factor >= 2 /\ N > factor
  /\ Panics(0) /\ functions[1] = "ret" /\ Result[1] = IntVal(32)
  /\ \A t \in DOMAIN functions :
        t >= factor => (functions[t] = "ret" /\ Result[t] = Call(t))
  /\ AllTasksServed

\* ----------------------------------------------------------------- C20
Hangs(t) == functions[t] = "hang"

\* the first hanging task of the batch
FirstHang ==
  CHOOSE t \in DOMAIN functions :
     Hangs(t) /\ \A x \in DOMAIN functions : Hangs(x) => t <= x

\* while a task hangs the call has not returned and, with F > 0, no unit of
\* a wave after the hanging task's wave exists
HangSafety ==
  ~NoHang =>
     /\ pc \notin {"L40", "L97", "done"}
     /\ Throttled =>
           \A t \in DOMAIN functions :
              Hangs(t) =>
                 \A u \in DOMAIN units : units[u].f < WaveHi(t \div factor)

\* the caller sits at the barrier of the first hanging task's wave (of the
\* whole batch for the unbounded runner); every unit of that wave and of the
\* earlier ones has finished, except those whose task hangs
BlockedAtBarrier ==
  /\ ~NoHang
  /\ pc \in {"L39", "L94"}
  /\ Len0(units) = IF Throttled THEN WaveHi(FirstHang \div factor) ELSE N
  /\ \A u \in DOMAIN units :
        units[u].pc = IF Hangs(units[u].f) THEN "running" ELSE "exited"

\* C20: if some task never returns the call never returns and, with F > 0,
\* no task of a wave after the hanging task's wave is ever launched, while
\* the other tasks of that wave run to completion.
C20_HangBlocks == [](HangSafety) /\ (~NoHang ~> [](BlockedAtBarrier))

C20_Witness ==
  /\ Throttled /\ factor >= 2 /\ N > factor
  /\ Hangs(0) /\ functions[1] = "ret"
  /\ BlockedAtBarrier
  /\ Result[1] = IntVal(32) /\ Len0(units) = factor

\* ------------------------------------------------------------------ C21
\* the value task t of batch fs hands back when it returns
CallIn(fs, t) == IF fs[t] = "nil" THEN Nil ELSE IntVal(add(t + 10, t + 20))

\* what a call over batch fs returns: a task that panics never reaches the
\* assignment, so its slot keeps the zero value of make
OutcomeOf(fs) ==
  [t \in DOMAIN fs |-> IF fs[t] = "panic" THEN Nil ELSE CallIn(fs, t)]

\* the batches that differ from this one in a single task, which panics in
\* one of the two and returns nil in the other
Twins ==
  {[functions EXCEPT ![t] = "nil"] : t \in {x \in DOMAIN functions : Panics(x)}}
    \cup
  {[functions EXCEPT ![t] = "panic"] :
     t \in {x \in DOMAIN functions : functions[x] = "nil"}}

\* C21: a call over any batch returns OutcomeOf that batch, whichever
\* function and factor is used, and the sequence it returns is the one
\* returned for every twin batch, in which a task that panics here returns
\* nil or the reverse: the result does not tell a panic from a nil return.
C21_Indistinguishable ==
  Returned =>
    /\ Result = OutcomeOf(functions)
    /\ \A fs \in Twins : Result = OutcomeOf(fs)

C21_Witness ==
  /\ Returned
  /\ Throttled
  /\ \E t \in DOMAIN functions : Panics(t) /\ Result[t] = Nil
  /\ \E t \in DOMAIN functions : functions[t] = "nil" /\ Result[t] = Nil
  /\ \E t \in DOMAIN functions : functions[t] = "ret" /\ Result[t] # Nil
  /\ Twins # {}

\* ------------------------------------------------------------------ C22
\* A caller that makes one call after another, keeping the sequence the
\* previous call handed it.  (A task that never returns ends the series, so
\* the batches are drawn from the kinds that let the call return.)
CallBatches ==
  UNION {[0..(n - 1) -> Kinds \ {"hang"}] : n \in 0..MaxCallN}

CallsInit ==
  /\ functions \in CallBatches
  /\ entry \in {"Parallelize", "ParallelizeThrottled"}
  /\ factor \in IF entry = "Parallelize" THEN {0} ELSE 0..MaxCallN
  /\ held = <<>>
  /\ Untimed
  /\ GetConnection
  /\ PureIdle
  /\ ExecStart

\* the call has returned; the caller keeps the sequence and calls either
\* function again with another batch
CallAgain ==
  /\ pc = "done"
  /\ held' = <<resultSet>>
  /\ functions' \in CallBatches
  /\ entry' \in {"Parallelize", "ParallelizeThrottled"}
  /\ factor' \in IF entry' = "Parallelize" THEN {0} ELSE 0..MaxCallN
  /\ pc' = IF entry' = "Parallelize" THEN "L19" ELSE "L60"
  /\ max' = 0
  /\ resultSet' = make(0)
  /\ wg' = 0
  /\ k' = 0
  /\ i' = 0
  /\ completed' = 0
  /\ toProcess' = 0
  /\ current' = 0
  /\ units' = make(0)
  /\ wave' = 0
  /\ calls' = [t \in DOMAIN functions' |-> 0]
  /\ writers' = [s \in DOMAIN functions' |-> <<>>]
  /\ dur' = [t \in DOMAIN functions' |-> 0]
  /\ UNCHANGED <<now, tx, txs, last, input, output>>

CallsNext == Next \/ CallAgain

CallsSpec == CallsInit /\ [][CallsNext]_vars

\* the collector right after its allocation
JustAllocated == pc = "L23" \/ (pc = "L68" /\ wave = 0)

TimedBatches ==
  UNION {[0..(n - 1) -> {"ret", "panic"}] : n \in 0..MaxTimedN}

TimeInit ==
  /\ functions \in TimedBatches
  /\ entry \in {"Parallelize", "ParallelizeThrottled"}
  /\ factor \in IF entry = "Parallelize" THEN {0} ELSE 0..MaxTimedN
  /\ dur \in [DOMAIN functions -> 1..MaxD]
  /\ now = 0
  /\ held = <<>>
  /\ GetConnection
  /\ PureIdle
  /\ ExecStart

\* one time unit passes for every task that is executing
Tick ==
  /\ ~ENABLED Next
  /\ \E u \in DOMAIN units : InProgress(u) /\ units[u].left > 0
  /\ units' = [u \in DOMAIN units |->
                 IF InProgress(u) /\ units[u].left > 0
                   THEN [units[u] EXCEPT !.left = @ - 1]
                   ELSE units[u]]
  /\ now' = now + 1
  /\ UNCHANGED <<functions, entry, factor, pc, max, resultSet, wg, k, i,
                 completed, toProcess, current, wave, calls, writers>>
  /\ UNCHANGED <<held, dur, tx, txs, last, input, output>>

TimeNext == Next \/ Tick

TimeSpec == TimeInit /\ [][TimeNext]_vars

MaxOf(S) == IF S = {} THEN 0 ELSE CHOOSE m \in S : \A x \in S : x <= m

\* the longest task of wave w
WaveMax(w) == MaxOf({dur[t] : t \in WaveLo(w)..(WaveHi(w) - 1)})

\* the sum of WaveMax over the first w waves
RECURSIVE SumWaves(_)
SumWaves(w) == IF w = 0 THEN 0 ELSE SumWaves(w - 1) + WaveMax(w - 1)

\* C23: when the call returns the clock reads, for the wave loop (F > 0),
\* the sum over the waves of the longest duration in the wave, and for the
\* unbounded runner the longest duration in the batch.
C23_WaveTiming ==
  Returned =>
    now = IF Throttled THEN SumWaves(CeilDiv(N, factor))
                       ELSE MaxOf({dur[t] : t \in DOMAIN functions})

C23_Witness ==
  /\ Returned
  /\ Throttled
  /\ N = 3
  /\ factor = 2
  /\ dur[0] = 1
  /\ dur[1] = 2
  /\ dur[2] = 2
  /\ Panics(1)
  /\ now = 4

\* ============================================================== mysqldb
\* One MySqlConnection used by one goroutine.  txs lists the transactions
\* db.Begin() has started, each with its state at the database: "open",
\* "committed" or "rolledback".
TxStates == {"open", "committed", "rolledback"}

\* the connection is obtained; no call of Parallelize is in progress
DbInit ==
  /\ ExecIdle
  /\ Untimed
  /\ GetConnection
  /\ PureIdle

\* func (this *MySqlConnection) IsInTransaction() bool: this.tx != nil
IsInTransaction == tx # 0

\* (variant: resetTx() is called only after the error check)
resetTxOnSuccess(e) == IF e THEN tx ELSE 0

\* defer this.resetTx(): this.tx = nil on every return past the defer,
\* whatever error e the underlying call gave
resetTx(e) == 0

\* The transactions after this.tx.Commit() / this.tx.Rollback() (to is the
\* state the call asks for) returned error e.  Without an error the
\* transaction has ended as asked.  With an error the program does not know
\* what became of it: it has ended as asked, or it is still open at the
\* database.
SqlEnd(e, to) ==
  IF e THEN {txs, [txs EXCEPT ![tx] = to]} ELSE {[txs EXCEPT ![tx] = to]}

\* the record of a call that has returned: the method, whether it returned
\* an error, whether the connection was in a transaction when it was called,
\* where its statement ran, and the method called before it
Called(op, e, was, on) ==
  [op |-> op, err |-> e, was |-> was, on |-> on, prev |-> last.op,
   prevErr |-> last.err]

\* func (this *MySqlConnection) Commit() error
Commit ==
  /\ IF ~IsInTransaction
       THEN /\ UNCHANGED <<tx, txs>>
            /\ last' = Called("Commit", FALSE, FALSE, "none")
       ELSE \E e \in BOOLEAN :
              /\ txs' \in SqlEnd(e, "committed")
              /\ tx' = resetTx(e)
              /\ last' = Called("Commit", e, TRUE, "tx")
  /\ UNCHANGED execVars
  /\ UNCHANGED <<held, dur, now, input, output>>

\* func (this *MySqlConnection) RollBack() error
RollBack ==
  /\ IF ~IsInTransaction
       THEN /\ UNCHANGED <<tx, txs>>
            /\ last' = Called("RollBack", FALSE, FALSE, "none")
       ELSE \E e \in BOOLEAN :
              /\ txs' \in SqlEnd(e, "rolledback")
              /\ tx' = resetTx(e)
              /\ last' = Called("RollBack", e, TRUE, "tx")
  /\ UNCHANGED execVars
  /\ UNCHANGED <<held, dur, now, input, output>>

\* func (this *MySqlConnection) StartTransaction() error:
\*   this.RollBack()                 (its error is dropped)
\*   tx, err := this.db.Begin(); if err != nil { return err }
\*   this.tx = tx; return nil
\* (db.Begin() succeeds at most MaxTx times)
StartTransaction ==
  /\ \E re \in BOOLEAN, be \in BOOLEAN :
       \E mid \in IF IsInTransaction THEN SqlEnd(re, "rolledback") ELSE {txs} :
         /\ be \/ Len(txs) < MaxTx
         /\ IF be
              THEN /\ txs' = mid
                   /\ tx' = IF IsInTransaction THEN resetTx(re) ELSE tx
              ELSE /\ txs' = Append(mid, "open")
                   /\ tx' = Len(mid) + 1
         /\ last' = Called("StartTransaction", be, IsInTransaction, "pool")
  /\ UNCHANGED execVars
  /\ UNCHANGED <<held, dur, now, input, output>>

\* (variant: the query always goes to the pool)
RouteToPool == "pool"

\* if this.IsInTransaction() { ... this.tx ... } else { ... this.db ... }
Route == IF IsInTransaction THEN "tx" ELSE "pool"

\* func (this *MySqlConnection) FetchRowsByQuery(query, args...): the query
\* runs on this.tx if IsInTransaction(), else on this.db; e is its error
FetchRowsByQuery ==
  /\ \E e \in BOOLEAN :
       last' = Called("FetchRowsByQuery", e, IsInTransaction, Route)
  /\ UNCHANGED <<tx, txs>>
  /\ UNCHANGED execVars
  /\ UNCHANGED <<held, dur, now, input, output>>

\* func (this *MySqlConnection) FetchRowByQuery(query, holder, args...):
\* return this.FetchRowsByQuery(query, holder, args...)
FetchRowByQuery ==
  /\ \E e \in BOOLEAN :
       last' = Called("FetchRowByQuery", e, IsInTransaction, Route)
  /\ UNCHANGED <<tx, txs>>
  /\ UNCHANGED execVars
  /\ UNCHANGED <<held, dur, now, input, output>>

\* func (this *MySqlConnection) PrepareStatement(query string) error: the
\* statement is prepared on this.tx if IsInTransaction(), else on this.db
PrepareStatement ==
  /\ \E e \in BOOLEAN :
       last' = Called("PrepareStatement", e, IsInTransaction, Route)
  /\ UNCHANGED <<tx, txs>>
  /\ UNCHANGED execVars
  /\ UNCHANGED <<held, dur, now, input, output>>

DbNext ==
  \/ StartTransaction \/ Commit \/ RollBack
  \/ FetchRowsByQuery \/ FetchRowByQuery \/ PrepareStatement

DbSpec == DbInit /\ [][DbNext]_vars

\* ------------------------------------------------------------------ C24
\* C24: right after Commit or RollBack has returned on a connection that was
\* in a transaction, with or without an error of the underlying call, the
\* connection is in no transaction.
C24_TxResetAfterEnd ==
  (last.op \in {"Commit", "RollBack"} /\ last.was) => ~IsInTransaction

C24_Witness ==
  /\ last.op = "Commit"
  /\ last.was
  /\ last.err
  /\ Len(txs) = 2
  /\ txs[1] = "rolledback"
  /\ ~IsInTransaction

\* ------------------------------------------------------------------ C25
\* the transactions begun by the connection that are neither committed nor
\* rolled back
OpenTxs == {x \in DOMAIN txs : txs[x] = "open"}

\* C25: at most one transaction begun by the connection is open at any
\* time; right after StartTransaction returned nil the connection is in the
\* transaction just begun, and right after it returned an error the
\* connection is in no transaction.
C25_AtMostOneOpen ==
  /\ Cardinality(OpenTxs) <= 1
  /\ last.op = "StartTransaction" =>
       IF last.err THEN ~IsInTransaction
                   ELSE tx = Len(txs) /\ txs[tx] = "open"

\* ====================================================== regexp, convert
\* A Go string is the sequence of its characters.
Lower == {"a", "b", "c", "d", "e", "f", "g", "h", "i", "j", "k", "l", "m",
          "n", "o", "p", "q", "r", "s", "t", "u", "v", "w", "x", "y", "z"}
Upper == {"A", "B", "C", "D", "E", "F", "G", "H", "I", "J", "K", "L", "M",
          "N", "O", "P", "Q", "R", "S", "T", "U", "V", "W", "X", "Y", "Z"}
Digits == {"0", "1", "2", "3", "4", "5", "6", "7", "8", "9"}

\* the characters the pattern "[^a-zA-Z0-9_]+" does not match
Word(c) == c \in Lower \cup Upper \cup Digits \cup {"_"}

\* text without its longest prefix of characters the pattern matches
RECURSIVE SkipRun(_)
SkipRun(text) ==
  IF text = <<>> \/ Word(Head(text)) THEN text ELSE SkipRun(Tail(text))

\* reg.ReplaceAllString(text, replaceby) for reg = "[^a-zA-Z0-9_]+": the
\* matches are the maximal runs of non-word characters (+ is greedy), and
\* each match is replaced by replaceby once.  (replaceby holds no "$".)
RECURSIVE ReplaceAllString(_, _)
ReplaceAllString(text, replaceby) ==
  IF text = <<>> THEN <<>>
  ELSE IF Word(Head(text))
    THEN <<Head(text)>> \o ReplaceAllString(Tail(text), replaceby)
    ELSE replaceby \o ReplaceAllString(SkipRun(text), replaceby)

\* func AlphaNumericOnly(text, replaceby string) (string, error): the
\* constant pattern compiles, so the error is nil
AlphaNumericOnly(text, replaceby) ==
  [done |-> TRUE, s |-> ReplaceAllString(text, replaceby), err |-> FALSE]

\* strconv.Itoa for n >= 0: the decimal digits
RECURSIVE DigitsOf(_)
DigitsOf(n) ==
  IF n < 10 THEN <<<<"0", "1", "2", "3", "4", "5", "6", "7", "8", "9">>[n + 1]>>
            ELSE DigitsOf(n \div 10) \o DigitsOf(n % 10)

\* strconv.Itoa
Itoa(n) == IF n < 0 THEN <<"-">> \o DigitsOf(0 - n) ELSE DigitsOf(n)

\* func ToString(i interface{}) (string, error): a type switch with the
\* cases int and string; every other dynamic type takes the default branch
ConvertToString(v) ==
  CASE v.type = "int" -> [done |-> TRUE, s |-> Itoa(v.v), err |-> FALSE]
    [] v.type = "string" -> [done |-> TRUE, s |-> v.v, err |-> FALSE]
    [] OTHER -> [done |-> TRUE, s |-> <<>>, err |-> TRUE]

\* the text of the README's example
HelloWorld == <<"H", "e", "l", "l", "o", ",", " ", "W", "o", "r", "l", "d",
               "!", " ", "1", "2", "3">>

RECURSIVE Texts(_)
Texts(n) ==
  IF n = 0 THEN {<<>>}
  ELSE Texts(n - 1) \cup
       {<<c>> \o t : c \in {"a", "1", "_", ",", " "},
                     t \in {x \in Texts(n - 1) : Len(x) = n - 1}}

\* interface{} values handed to ToString; a float64 is written in
\* hundredths (12345 is 123.45)
StringVal(t) == [type |-> "string", v |-> t]

Values ==
  {[type |-> "int", v |-> n] : n \in (0 - MaxAbs)..MaxAbs}
    \cup {[type |-> "float64", v |-> n] : n \in {0, 150, 12345}}
    \cup {[type |-> "float32", v |-> n] : n \in {0, 150}}
    \cup {[type |-> "int64", v |-> n] : n \in {0, 123}}
    \cup {[type |-> "bool", v |-> n] : n \in {0, 1}}
    \cup {StringVal(t) : t \in Texts(2)}

PureInit ==
  /\ ExecIdle
  /\ Untimed
  /\ GetConnection
  /\ output = NoOutput
  /\ \/ /\ \E t \in Texts(MaxLen) \cup {HelloWorld} :
             \E r \in {<<"_">>, <<"-">>, <<"_", "_">>} :
               input = [fn |-> "AlphaNumericOnly", arg |-> StringVal(t),
                        replaceby |-> r]
     \/ /\ \E v \in Values :
             input = [fn |-> "ToString", arg |-> v, replaceby |-> <<>>]

CallAlphaNumericOnly ==
  /\ input.fn = "AlphaNumericOnly"
  /\ ~output.done
  /\ output' = AlphaNumericOnly(input.arg.v, input.replaceby)
  /\ UNCHANGED execVars
  /\ UNCHANGED <<held, dur, now, tx, txs, last, input>>

CallToString ==
  /\ input.fn = "ToString"
  /\ ~output.done
  /\ output' = ConvertToString(input.arg)
  /\ UNCHANGED execVars
  /\ UNCHANGED <<held, dur, now, tx, txs, last, input>>

PureNext == CallAlphaNumericOnly \/ CallToString

PureSpec == PureInit /\ [][PureNext]_vars

\* ------------------------------------------------------------------ C26
\* the README's reading: every character that is neither a letter nor a
\* digit becomes one copy of r
RECURSIVE PerCharacter(_, _)
PerCharacter(text, r) ==
  IF text = <<>> THEN <<>>
  ELSE (IF Head(text) \in Lower \cup Upper \cup Digits THEN <<Head(text)>>
                                                       ELSE r)
         \o PerCharacter(Tail(text), r)

\* C26: AlphaNumericOnly(text, r) returns text with each non-alphanumeric
\* character replaced by one copy of r, and a nil error; for the README's
\* example that is "Hello__World__123".
C26_OnePerCharacter ==
  (output.done /\ input.fn = "AlphaNumericOnly") =>
    /\ ~output.err
    /\ output.s = PerCharacter(input.arg.v, input.replaceby)
    /\ (input.arg.v = HelloWorld /\ input.replaceby = <<"_">>) =>
         output.s = <<"H", "e", "l", "l", "o", "_", "_", "W", "o", "r", "l",
                      "d", "_", "_", "1", "2", "3">>

\* ------------------------------------------------------------------ C27
\* the types the README lists for ToString
Convertible == {"int", "float64", "float32", "string"}

\* C27: ToString returns a nil error for int, float and string inputs, and
\* an error only for the other types.
C27_FloatToString ==
  (output.done /\ input.fn = "ToString") =>
    (output.err <=> input.arg.type \notin Convertible)

\* ------------------------------------------------------------------ C28
\* every task of the batch blocks (say, on a latch that opens only once all
\* of them have started)
AllHang == \A t \in DOMAIN functions : Hangs(t)

\* all N tasks are started and none has finished
AllInProgress ==
  /\ Len0(units) = N
  /\ \A u \in DOMAIN units : InProgress(u)

\* the unbounded runner reaches its barrier with all N units launched
AllLaunchedBeforeWait == (Unbounded /\ pc = "L39") => Len0(units) = N

\* no launch and no start waits for another task: while tasks remain the
\* caller can launch the next one, and a launched unit can start its task,
\* whatever the other units are doing
StartNeverWaits ==
  /\ (pc = "L24" /\ k < N) => ENABLED P_Spawn
  /\ \A u \in DOMAIN units :
       (Unbounded /\ units[u].pc = "ready" /\ pc # "crashed") =>
          ENABLED UnitStart(u)

\* C28: in Parallelize all N units are launched before the runner waits;
\* launching and starting a task never waits for another task; and a batch
\* of N tasks that all block until released comes to the state where all N
\* are in progress at once, for every N.
C28_NoArtificialBound ==
  /\ [](AllLaunchedBeforeWait /\ StartNeverWaits)
  /\ ((Unbounded /\ AllHang) ~> AllInProgress)

C28_Witness ==
  /\ Unbounded
  /\ N = MaxN
  /\ \A t \in DOMAIN functions : functions[t] \in {"ret", "panic"}
  /\ \E t \in DOMAIN functions : Panics(t)
  /\ AllInProgress
  /\ pc = "L39"

\* ------------------------------------------------------------------ C29
\* the wave of the first hanging task
HangWave == FirstHang \div factor

\* every task of that wave blocks until released, the waves before it finish
FullWaveHangs ==
  /\ Throttled
  /\ ~NoHang
  /\ \A t \in WaveLo(HangWave)..(WaveHi(HangWave) - 1) : Hangs(t)

\* the tasks now in progress
Running == {units[u].f : u \in {x \in DOMAIN units : InProgress(x)}}

\* exactly the s tasks of the blocking wave are in progress
WaveInProgress ==
  /\ Throttled
  /\ ~NoHang
  /\ Running = WaveLo(HangWave)..(WaveHi(HangWave) - 1)
  /\ Cardinality({u \in DOMAIN units : InProgress(u)})
       = WaveHi(HangWave) - WaveLo(HangWave)

\* the wave loop reaches its barrier with every unit of the wave launched
WaveLaunchedBeforeWait ==
  (Throttled /\ pc = "L94") =>
     /\ {units[u].f : u \in {x \in DOMAIN units : units[x].wave = wave}}
          = WaveLo(wave)..(WaveHi(wave) - 1)
     /\ Cardinality({u \in DOMAIN units : units[u].wave = wave})
          = WaveHi(wave) - WaveLo(wave)

\* C29: with F > 0 every unit of a wave is launched before the runner waits
\* for the wave, and a wave of s tasks that all block until released comes
\* to the state where exactly those s tasks are in progress, whichever wave
\* it is; s is min(F, N) for the first wave.
C29_ThrottleTight ==
  /\ [](WaveLaunchedBeforeWait)
  /\ (FullWaveHangs ~> WaveInProgress)
  /\ ((FullWaveHangs /\ HangWave = 0) ~>
        (Cardinality(Running) = Min(factor, N)))

C29_Witness ==
  /\ Throttled
  /\ N = 3
  /\ factor = 2
  /\ functions[2] = "ret"
  /\ \E t \in DOMAIN functions : Panics(t)
  /\ pc = "L94"
  /\ wave = 0
  /\ Running = {0, 1}

\* ------------------------------------------------------------------ C30
\* task t has been invoked
Started(t) == calls[t] > 0

\* task t has returned or panicked
Finished(t) ==
  \E u \in UnitsOf(t) : units[u].pc \notin {"ready", "running"}

\* C30: with F = 1 the tasks that have started form a prefix of the batch,
\* a task has started only if every task before it has returned or
\* panicked, a task has finished only if it was started, and a unit is
\* launched only when every earlier unit has run to its end.
C30_SerialWhenOne ==
  (Throttled /\ factor = 1) =>
     /\ \A t \in DOMAIN functions :
          /\ Started(t) => \A x \in 0..(t - 1) : Started(x) /\ Finished(x)
          /\ Finished(t) => Started(t)
     /\ \A u \in DOMAIN units :
          /\ units[u].f = u
          /\ \A v \in 0..(u - 1) : units[v].pc = "exited"

C30_Witness ==
  /\ Throttled
  /\ factor = 1
  /\ N = 3
  /\ Panics(0)
  /\ functions[1] = "ret"
  /\ Len0(units) = 3
  /\ InProgress(2)
  /\ Finished(0)
  /\ Finished(1)

\* ------------------------------------------------------------------ C31
\* the unit of a panicking task has emitted its diagnostic
Diagnosed(u) == Panics(units[u].f) => units[u].diags = 1

\* C31: a unit whose task panicked signals the barrier only after its
\* recover handler has printed the diagnostic; hence when the call is past
\* its last barrier every panicking task has its diagnostic, and in the wave
\* loop every panicking task of a wave has its diagnostic before a unit of
\* a later wave is even launched.
C31_DiagnosticBeforeSignal ==
  /\ \A u \in DOMAIN units : units[u].dones > 0 => Diagnosed(u)
  /\ pc \in {"L40", "L97", "done"} =>
       \A t \in DOMAIN functions :
          Panics(t) => \E u \in UnitsOf(t) : units[u].diags = 1
  /\ Throttled =>
       \A u \in DOMAIN units : \A v \in DOMAIN units :
          units[u].wave < units[v].wave => Diagnosed(u)

C31_Witness ==
  /\ Throttled
  /\ \E u \in DOMAIN units : \E v \in DOMAIN units :
        /\ units[u].wave < units[v].wave
        /\ Panics(units[u].f)
        /\ units[u].diags = 1
        /\ units[u].dones = 1
        /\ units[v].pc = "ready"
  /\ \E t \in DOMAIN functions : ~Panics(t)

\* ------------------------------------------------------------------ C32
\* the caller is between the Add of the current batch / wave and the next
\* statement after its Wait
AfterAdd == pc \in {"L24", "L39", "L40", "L79", "L94", "L95"}

\* the count handed to wg.Add for the current batch / wave
Accounted == IF Unbounded THEN max ELSE toProcess

\* the units of the current batch / wave (wave stays 0 in Parallelize)
WaveUnits == {u \in DOMAIN units : units[u].wave = wave}

\* those of them that have called wg.Done()
Signalled == {u \in WaveUnits : units[u].dones > 0}

\* C32: the barrier counter is never negative; between Add and the end of
\* the Wait it equals the count added minus the units that signalled Done;
\* at the barrier the units launched are as many as the count added; the
\* counter is zero exactly when all the units accounted for have been
\* launched and have finished; outside that span it is zero.
C32_BarrierCounter ==
  /\ wg >= 0
  /\ pc # "crashed"
  /\ AfterAdd =>
       /\ wg = Accounted - Cardinality(Signalled)
       /\ wg = 0 <=> /\ Cardinality(WaveUnits) = Accounted
                     /\ \A u \in WaveUnits : units[u].pc = "exited"
  /\ pc \in {"L39", "L94"} => Cardinality(WaveUnits) = Accounted
  /\ ~AfterAdd => wg = 0

C32_Witness ==
  /\ Throttled
  /\ pc = "L94"
  /\ N = 3
  /\ toProcess = 2
  /\ wg = 1
  /\ Cardinality(Signalled) = 1
  /\ \E u \in Signalled : Panics(units[u].f)

\* ------------------------------------------------------------------ C33
\* every unit launched has run to its end
AllExited == \A u \in DOMAIN units : units[u].pc = "exited"

\* C33: once the caller is past its last wg.Wait(), and so when the call
\* has returned, every unit it launched has run to its end; and from the
\* return on no step writes a slot of the returned sequence or moves a unit.
C33_NoUnitOutlivesCall ==
  /\ [](pc \in {"L40", "L97", "done"} => AllExited)
  /\ [][Returned => /\ resultSet' = resultSet
                    /\ writers' = writers
                    /\ units' = units]_vars

C33_Witness ==
  /\ Returned
  /\ N = MaxN
  /\ Len0(units) = N
  /\ AllExited
  /\ \E t \in DOMAIN functions : Panics(t) /\ Result[t] = Nil
  /\ \E t \in DOMAIN functions : Result[t] # Nil

\* ------------------------------------------------------------------ C34
\* the methods that send a statement to the database
Queries == {"FetchRowsByQuery", "FetchRowByQuery", "PrepareStatement"}

\* C34: a query method runs its statement on the transaction exactly when
\* the connection was in a transaction at the call, and then that is the
\* transaction begun last, on which the connection has called neither
\* Commit nor RollBack; otherwise it runs on the pool.  A query called
\* right after Commit or RollBack, whatever that call returned, runs on the
\* pool.
C34_QueryRouting ==
  last.op \in Queries =>
    /\ last.on = "tx" <=> last.was
    /\ last.on = "pool" <=> ~last.was
    /\ last.was <=> IsInTransaction
    /\ last.on = "tx" => tx = Len(txs) /\ txs[tx] = "open"
    /\ last.prev \in {"Commit", "RollBack"} => last.on = "pool"

C34_Witness ==
  /\ last.op = "PrepareStatement"
  /\ last.prev = "Commit"
  /\ last.prevErr
  /\ last.on = "pool"
  /\ Len(txs) = 1
  /\ txs[1] = "open"

\* ------------------------------------------------------------------ C35
Enders == {"Commit", "RollBack"}

\* C35: Commit or RollBack called on a connection that is in no transaction
\* returns nil, ends no transaction at the database and leaves this.tx as it
\* was; and a Commit or RollBack called right after a Commit or RollBack
\* returns nil.
C35_NoopOutsideTx ==
  /\ [][(~IsInTransaction /\ last'.op \in Enders) =>
          /\ ~last'.err
          /\ ~last'.was
          /\ txs' = txs
          /\ tx' = tx]_vars
  /\ []((last.op \in Enders /\ last.prev \in Enders) =>
          /\ ~last.err
          /\ ~last.was)

C35_Witness ==
  /\ last.op = "Commit"
  /\ last.prev = "RollBack"
  /\ last.prevErr
  /\ ~last.err
  /\ Len(txs) = 2
  /\ txs[2] = "open"
  /\ ~IsInTransaction

\* ------------------------------------------------------------------ C36
\* the caller is inside a wave iteration, the wave size chosen
InIteration == pc \in {"L75", "L79", "L94", "L95"}

\* C36: in the wave loop (F > 0), when an iteration starts (the loop test
\* holds) completed equals i; once the wave size is chosen, until the end
\* of the iteration's Wait, 1 <= toProcess <= F and i + toProcess <= N with
\* completed still equal to i; and when the loop has exited completed
\* equals N.
C36_LoopInvariant ==
  Throttled =>
    /\ (pc = "L68" /\ LoopTest) => completed = i
    /\ InIteration =>
         /\ 1 <= toProcess
         /\ toProcess <= factor
         /\ i + toProcess <= N
         /\ completed = i
    /\ pc \in {"L97", "done"} => completed = N

C36_Witness ==
  /\ Throttled
  /\ pc = "L75"
  /\ N = 3
  /\ factor = 2
  /\ i = 2
  /\ completed = 2
  /\ toProcess = 1

====
